---- MODULE Spec2Model ----
(***************************************************************************)
(* Model of the Google Timeline pipeline:                                   *)
(*   extract_gps.py       Timeline.json  -> coordinates.csv                 *)
(*   generate_inserts.py  coordinates.csv -> insert_coordinates.sql,        *)
(*                                           insert_coordinates_batch.sql   *)
(* Text is a sequence of one-character strings ("deg" stands for the        *)
(* degree sign U+00B0).  Python values are records [t, s, neg, m, e]:       *)
(* t is the type tag, s the text of a str, and neg/m/e the sign, decimal    *)
(* mantissa and number of fractional digits of a number (m * 10^-e).        *)
(***************************************************************************)
EXTENDS Integers, Sequences, FiniteSets, TLC

(* ------------------------------------------------------------------ *)
(* Bounds of the model                                                  *)
(* ------------------------------------------------------------------ *)
MaxRaw == 2
MaxSeg == 1
MaxBatch == 3

(* ------------------------------------------------------------------ *)
(* Text                                                                 *)
(* ------------------------------------------------------------------ *)
Digits == <<"0", "1", "2", "3", "4", "5", "6", "7", "8", "9">>

IsDigit(c) == \E i \in 1..10 : Digits[i] = c

DigitVal(c) == (CHOOSE i \in 1..10 : Digits[i] = c) - 1

IsSpace(c) == c \in {" ", "\t", "\n"}

\* Unicode code point of a character (Python compares str by code point).
CodePoint(c) ==
    CASE c = "\t" -> 9
      [] c = "\n" -> 10
      [] c = " " -> 32
      [] c = "\"" -> 34
      [] c = "'" -> 39
      [] c = "+" -> 43
      [] c = "," -> 44
      [] c = "-" -> 45
      [] c = "." -> 46
      [] IsDigit(c) -> 48 + DigitVal(c)
      [] c = ":" -> 58
      [] c = "T" -> 84
      [] c = "Z" -> 90
      [] c = "\\" -> 92
      [] c = "a" -> 97
      [] c = "b" -> 98
      [] c = "c" -> 99
      [] c = "i" -> 105
      [] c = "m" -> 109
      [] c = "n" -> 110
      [] c = "s" -> 115
      [] c = "t" -> 116
      [] c = "deg" -> 176

\* a < b for Python str
StrLt(a, b) ==
    \E i \in 1..(Len(a) + 1) :
        /\ \A j \in 1..(i - 1) : j <= Len(b) /\ a[j] = b[j]
        /\ \/ i = Len(a) + 1 /\ i <= Len(b)
           \/ i <= Len(a) /\ i <= Len(b) /\ CodePoint(a[i]) < CodePoint(b[i])

StrLeq(a, b) == a = b \/ StrLt(a, b)

\* str.replace(old, new) for a one-character old
RECURSIVE Replace(_, _, _)
Replace(s, old, new) ==
    IF s = <<>> THEN <<>>
    ELSE (IF Head(s) = old THEN new ELSE <<Head(s)>>) \o Replace(Tail(s), old, new)

RECURSIVE LStrip(_)
LStrip(s) == IF s # <<>> /\ IsSpace(Head(s)) THEN LStrip(Tail(s)) ELSE s

RECURSIVE RStrip(_)
RStrip(s) ==
    IF s # <<>> /\ IsSpace(s[Len(s)]) THEN RStrip(SubSeq(s, 1, Len(s) - 1)) ELSE s

\* str.strip()
Strip(s) == RStrip(LStrip(s))

\* str.split(sep) for a one-character sep: always at least one part
RECURSIVE Split(_, _)
Split(s, sep) ==
    IF \A i \in 1..Len(s) : s[i] # sep THEN <<s>>
    ELSE LET k == CHOOSE i \in 1..Len(s) :
                      s[i] = sep /\ \A j \in 1..(i - 1) : s[j] # sep
         IN <<SubSeq(s, 1, k - 1)>> \o Split(SubSeq(s, k + 1, Len(s)), sep)

\* str.split(): whitespace-delimited tokens, none for a blank string
RECURSIVE SplitWs(_)
SplitWs(s) ==
    LET t == LStrip(s) IN
    IF t = <<>> THEN <<>>
    ELSE IF \A i \in 1..Len(t) : ~IsSpace(t[i]) THEN <<t>>
    ELSE LET k == CHOOSE i \in 1..Len(t) :
                      IsSpace(t[i]) /\ \A j \in 1..(i - 1) : ~IsSpace(t[j])
         IN <<SubSeq(t, 1, k - 1)>> \o SplitWs(SubSeq(t, k, Len(t)))

RECURSIVE NatText(_)
NatText(n) == IF n < 10 THEN <<Digits[n + 1]>> ELSE NatText(n \div 10) \o <<Digits[(n % 10) + 1]>>

RECURSIVE Pow10(_)
Pow10(k) == IF k = 0 THEN 1 ELSE 10 * Pow10(k - 1)

\* n zero-padded to w digits (strftime's %Y, %m, %d, %H, %M, %S)
RECURSIVE Pad(_, _)
Pad(n, w) == IF w = 0 THEN <<>> ELSE Pad(n \div 10, w - 1) \o <<Digits[(n % 10) + 1]>>

AllDigits(s) == s # <<>> /\ \A i \in 1..Len(s) : IsDigit(s[i])

RECURSIVE TextNat(_)
TextNat(s) == IF s = <<>> THEN 0 ELSE 10 * TextNat(SubSeq(s, 1, Len(s) - 1)) + DigitVal(s[Len(s)])

(* ------------------------------------------------------------------ *)
(* Python values                                                        *)
(* ------------------------------------------------------------------ *)
PyVal(t, s, neg, m, e) == [t |-> t, s |-> s, neg |-> neg, m |-> m, e |-> e]

Absent == PyVal("absent", <<>>, FALSE, 0, 0)   \* key not in the JSON object
PyNone == PyVal("none", <<>>, FALSE, 0, 0)
PyStr(s) == PyVal("str", s, FALSE, 0, 0)
PyInt(neg, m) == PyVal("int", <<>>, neg, m, 0)
PyNaN == PyVal("nan", <<>>, FALSE, 0, 0)

\* a float in shortest decimal form, as repr() prints it
RECURSIVE PyFloat(_, _, _)
PyFloat(neg, m, e) ==
    IF m = 0 THEN PyVal("float", <<>>, neg, 0, 0)
    ELSE IF e > 0 /\ m % 10 = 0 THEN PyFloat(neg, m \div 10, e - 1)
    ELSE PyVal("float", <<>>, neg, m, e)

\* dict.get(key, default)
Get(v, default) == IF v.t = "absent" THEN default ELSE v

\* truth value of a Python object
Truthy(v) ==
    CASE v.t = "str" -> v.s # <<>>
      [] v.t \in {"int", "float"} -> v.m # 0
      [] v.t = "nan" -> TRUE
      [] OTHER -> FALSE

IsNumber(v) == v.t \in {"int", "float", "nan"}

\* a == b for numbers: NaN equals nothing, -0.0 equals 0.0
NumEq(a, b) ==
    /\ a.t # "nan" /\ b.t # "nan"
    /\ a.m = b.m /\ a.e = b.e
    /\ (a.neg = b.neg \/ a.m = 0)

\* float(text): optional sign, digits with an optional fraction, or nan
ParseFloat(text) ==
    LET s == Strip(text)
        signed == s # <<>> /\ Head(s) \in {"+", "-"}
        neg == s # <<>> /\ Head(s) = "-"
        body == IF signed THEN Tail(s) ELSE s
        parts == Split(body, ".")
    IN  IF body = <<"n", "a", "n">> THEN PyNaN
        ELSE IF Len(parts) = 1 /\ AllDigits(parts[1])
             THEN PyFloat(neg, TextNat(parts[1]), 0)
        ELSE IF Len(parts) = 2 /\ (parts[1] # <<>> \/ parts[2] # <<>>)
                /\ (parts[1] = <<>> \/ AllDigits(parts[1]))
                /\ (parts[2] = <<>> \/ AllDigits(parts[2]))
             THEN PyFloat(neg, TextNat(parts[1]) * Pow10(Len(parts[2])) + TextNat(parts[2]),
                          Len(parts[2]))
        ELSE PyNone   \* ValueError

\* str(x) of a number, as csv.DictWriter writes it
NumText(v) ==
    CASE v.t = "nan" -> <<"n", "a", "n">>
      [] v.t = "int" -> (IF v.neg THEN <<"-">> ELSE <<>>) \o NatText(v.m)
      [] v.t = "float" ->
            (IF v.neg THEN <<"-">> ELSE <<>>)
            \o NatText(v.m \div Pow10(v.e)) \o <<".">>
            \o (IF v.e = 0 THEN <<"0">> ELSE Pad(v.m % Pow10(v.e), v.e))

(* ------------------------------------------------------------------ *)
(* extract_gps.py: parsing                                              *)
(* ------------------------------------------------------------------ *)
\* parse_latlng: <<lat, lng>>, or <<None, None>> on ValueError / IndexError
parse_latlng(latlng_str) ==
    LET cleaned == Strip(Replace(latlng_str, "deg", <<>>))
        parts == Split(cleaned, ",")
        lat == ParseFloat(Strip(parts[1]))
        lng == IF Len(parts) >= 2 THEN ParseFloat(Strip(parts[2])) ELSE PyNone
    IN  IF lat.t = "none" \/ lng.t = "none" THEN <<PyNone, PyNone>> ELSE <<lat, lng>>

IsLeap(y) == (y % 4 = 0 /\ y % 100 # 0) \/ y % 400 = 0

DaysInMonth(y, mo) ==
    CASE mo = 2 -> IF IsLeap(y) THEN 29 ELSE 28
      [] mo \in {4, 6, 9, 11} -> 30
      [] OTHER -> 31

\* datetime.fromisoformat for 'YYYY-MM-DDTHH:MM:SS+HH:MM' (offset-aware, second
\* precision); ok = FALSE stands for the ValueError of any other text.
fromisoformat(s) ==
    LET num(i, j) == TextNat(SubSeq(s, i, j))
        shaped == /\ Len(s) = 25
                  /\ \A i \in {1, 2, 3, 4, 6, 7, 9, 10, 12, 13, 15, 16, 18, 19, 21, 22, 24, 25} :
                         IsDigit(s[i])
                  /\ s[5] = "-" /\ s[8] = "-" /\ s[11] = "T"
                  /\ s[14] = ":" /\ s[17] = ":" /\ s[23] = ":"
                  /\ s[20] \in {"+", "-"}
        valid == /\ shaped
                 /\ num(1, 4) >= 1
                 /\ num(6, 7) \in 1..12
                 /\ num(9, 10) \in 1..DaysInMonth(num(1, 4), num(6, 7))
                 /\ num(12, 13) < 24 /\ num(15, 16) < 60 /\ num(18, 19) < 60
                 /\ num(21, 22) < 24 /\ num(24, 25) < 60
    IN  IF ~valid
        THEN [ok |-> FALSE, year |-> 0, month |-> 0, day |-> 0,
              hour |-> 0, minute |-> 0, second |-> 0, utcoffset |-> 0]
        ELSE [ok |-> TRUE, year |-> num(1, 4), month |-> num(6, 7), day |-> num(9, 10),
              hour |-> num(12, 13), minute |-> num(15, 16), second |-> num(18, 19),
              utcoffset |-> (IF s[20] = "-" THEN -1 ELSE 1)
                                * (num(21, 22) * 60 + num(24, 25))]

\* dt.astimezone(timezone.utc): ok = FALSE stands for the OverflowError outside
\* years 1..9999
astimezone_utc(dt) ==
    LET total == dt.hour * 60 + dt.minute - dt.utcoffset
        shift == IF total < 0 THEN -1 ELSE IF total >= 1440 THEN 1 ELSE 0
        mins == total - shift * 1440
        prevMonth == IF dt.month = 1 THEN 12 ELSE dt.month - 1
        prevYear == IF dt.month = 1 THEN dt.year - 1 ELSE dt.year
        back == shift = -1 /\ dt.day = 1
        fwd == shift = 1 /\ dt.day = DaysInMonth(dt.year, dt.month)
        year == IF back THEN prevYear
                ELSE IF fwd /\ dt.month = 12 THEN dt.year + 1 ELSE dt.year
        month == IF back THEN prevMonth
                 ELSE IF fwd THEN (IF dt.month = 12 THEN 1 ELSE dt.month + 1)
                 ELSE dt.month
        day == IF back THEN DaysInMonth(prevYear, prevMonth)
               ELSE IF fwd THEN 1 ELSE dt.day + shift
    IN  [ok |-> year \in 1..9999, year |-> year, month |-> month, day |-> day,
         hour |-> mins \div 60, minute |-> mins % 60, second |-> dt.second,
         utcoffset |-> 0]

\* utc_dt.strftime('%Y-%m-%dT%H:%M:%SZ')
strftime(dt) ==
    Pad(dt.year, 4) \o <<"-">> \o Pad(dt.month, 2) \o <<"-">> \o Pad(dt.day, 2)
    \o <<"T">> \o Pad(dt.hour, 2) \o <<":">> \o Pad(dt.minute, 2) \o <<":">>
    \o Pad(dt.second, 2) \o <<"Z">>

\* convert_to_utc: the UTC text, or the original text when anything raises
convert_to_utc(timestamp_str) ==
    LET dt == fromisoformat(Replace(timestamp_str, "Z", <<"+", "0", "0", ":", "0", "0">>))
    IN  IF dt.ok /\ astimezone_utc(dt).ok THEN strftime(astimezone_utc(dt))
        ELSE timestamp_str

(* ------------------------------------------------------------------ *)
(* extract_gps.py: extract_gps_coordinates                             *)
(* ------------------------------------------------------------------ *)
EmptyStr == PyStr(<<>>)

Coordinate(dt, lat, lng, alt) ==
    [datetime |-> dt, latitude |-> lat, longitude |-> lng, altitude |-> alt]

\* Faulty variant of BothPresent: one of the two values is enough.
BothPresent_either(position, timestamp) == Truthy(position) \/ Truthy(timestamp)

\* 'if latlng and timestamp:' / 'if point and timestamp:'
BothPresent(position, timestamp) == Truthy(position) /\ Truthy(timestamp)

\* Faulty variant of AltitudeValue: an unparseable altitude text counts as 0.0.
AltitudeValue_zero(altitude) ==
    IF IsNumber(altitude) THEN altitude
    ELSE IF Truthy(altitude) THEN PyFloat(FALSE, 0, 0)
    ELSE PyNone

\* altitude_value of a raw signal (None when absent or unparseable)
AltitudeValue(altitude) ==
    IF IsNumber(altitude) THEN altitude
    ELSE IF Truthy(altitude)
         THEN LET tokens == SplitWs(altitude.s)
              IN  IF tokens = <<>> THEN PyNone   \* IndexError, swallowed
                  ELSE ParseFloat(tokens[1])     \* None on ValueError, swallowed
    ELSE PyNone

\* 'altitude_value if altitude_value is not None else ''
AltitudeField(altitude_value) ==
    IF altitude_value.t # "none" THEN altitude_value ELSE EmptyStr

\* body of the rawSignals loop: the entries one signal appends (none or one)
SignalCoordinates(signal) ==
    LET latlng == Get(signal.position.LatLng, EmptyStr)
        timestamp == Get(signal.position.timestamp, EmptyStr)
        altitude == Get(signal.altitude, EmptyStr)
        ll == parse_latlng(latlng.s)
    IN  IF BothPresent(latlng, timestamp) /\ ll[1].t # "none" /\ ll[2].t # "none"
        THEN <<Coordinate(convert_to_utc(timestamp.s), ll[1], ll[2],
                          AltitudeField(AltitudeValue(altitude)))>>
        ELSE <<>>

\* body of the timelinePath loop for one point
PointCoordinates(point_data) ==
    LET point == Get(point_data.point, EmptyStr)
        timestamp == Get(point_data.time, EmptyStr)
        ll == parse_latlng(point.s)
    IN  IF BothPresent(point, timestamp) /\ ll[1].t # "none" /\ ll[2].t # "none"
        THEN <<Coordinate(convert_to_utc(timestamp.s), ll[1], ll[2], EmptyStr)>>
        ELSE <<>>

\* the inner loop over segment.get('timelinePath', [])
RECURSIVE PathCoordinates(_)
PathCoordinates(timeline_path) ==
    IF timeline_path = <<>> THEN <<>>
    ELSE PointCoordinates(Head(timeline_path)) \o PathCoordinates(Tail(timeline_path))

\* key == k for a key of 'seen': tuples compare element by element
KeyEq(a, b) ==
    a.datetime = b.datetime /\ NumEq(a.latitude, b.latitude)
    /\ NumEq(a.longitude, b.longitude)

\* 'key not in seen' ... 'unique_coordinates.append(coord)'
RECURSIVE RemoveDuplicatesFrom(_, _, _)
RemoveDuplicatesFrom(coords, seen, unique) ==
    IF coords = <<>> THEN unique
    ELSE LET coord == Head(coords) IN
         IF \E k \in seen : KeyEq(k, coord)
         THEN RemoveDuplicatesFrom(Tail(coords), seen, unique)
         ELSE RemoveDuplicatesFrom(Tail(coords), seen \cup {coord}, Append(unique, coord))

\* Faulty variant of RemoveDuplicates: only adjacent duplicates are removed.
RECURSIVE RemoveDuplicates_adjacent(_)
RemoveDuplicates_adjacent(coords) ==
    IF Len(coords) <= 1 THEN coords
    ELSE LET front == RemoveDuplicates_adjacent(SubSeq(coords, 1, Len(coords) - 1))
         IN  IF KeyEq(front[Len(front)], coords[Len(coords)])
             THEN front ELSE Append(front, coords[Len(coords)])

RemoveDuplicates(coords) == RemoveDuplicatesFrom(coords, {}, <<>>)

\* Faulty variant of SortByDatetime: the list is left in traversal order.
SortByDatetime_unsorted(coords) == coords

\* list.sort(key=lambda x: x['datetime']): stable, ascending by str comparison
RECURSIVE SortByDatetime(_)
SortByDatetime(coords) ==
    IF coords = <<>> THEN <<>>
    ELSE LET n == Len(coords)
             sorted == SortByDatetime(SubSeq(coords, 1, n - 1))
             x == coords[n]
             k == Cardinality({i \in 1..(n - 1) : StrLeq(sorted[i].datetime, x.datetime)})
         IN  SubSeq(sorted, 1, k) \o <<x>> \o SubSeq(sorted, k + 1, n - 1)

\* the text csv.DictWriter writes for a field (and csv.DictReader reads back)
CsvField(v) == IF v.t = "str" THEN v.s ELSE IF v.t = "none" THEN <<>> ELSE NumText(v)

CsvRow(coord) ==
    [datetime |-> coord.datetime, latitude |-> CsvField(coord.latitude),
     longitude |-> CsvField(coord.longitude), altitude |-> CsvField(coord.altitude)]

CsvRows(coords) == [i \in 1..Len(coords) |-> CsvRow(coords[i])]

(* ------------------------------------------------------------------ *)
(* Input documents                                                      *)
(* ------------------------------------------------------------------ *)
\* the spec's example "49.90deg, -97.00deg"
LatLngSpec ==
    <<"4", "9", ".", "9", "0", "deg", ",", " ", "-", "9", "7", ".", "0", "0", "deg">>

\* the same pair with extra whitespace
LatLngSpaced ==
    <<" ", "4", "9", ".", "9", " ", "deg", ",", " ", " ", "-", "9", "7", ".", "0", "deg", " ">>

\* float() accepts "nan"
LatLngNaN ==
    <<"n", "a", "n", "deg", ",", " ", "1", ".", "0", "deg">>

LatLngZero ==
    <<"0", ".", "0", "deg", ",", " ", "1", ".", "0", "deg">>

LatLngNegZero ==
    <<"-", "0", ".", "0", "deg", ",", " ", "1", ".", "0", "deg">>

\* IndexError
LatLngNoComma ==
    <<"5">>

\* ValueError
LatLngWords ==
    <<"a", "b", "c", ",", " ", "1", ".", "0">>

\* 16:00:00 UTC
TimeLocal ==
    <<"2", "0", "2", "4", "-", "0", "1", "-", "0", "1", "T", "1", "0", ":", "0", "0", ":", "0", "0", "-", "0", "6", ":", "0", "0">>

\* 16:00:00 UTC
TimeZulu ==
    <<"2", "0", "2", "4", "-", "0", "1", "-", "0", "1", "T", "1", "6", ":", "0", "0", ":", "0", "0", "Z">>

\* 16:00:00 UTC
TimeEast ==
    <<"2", "0", "2", "4", "-", "0", "1", "-", "0", "1", "T", "1", "7", ":", "0", "0", ":", "0", "0", "+", "0", "1", ":", "0", "0">>

\* 2023-12-31T23:30:00 UTC
TimeNewYear ==
    <<"2", "0", "2", "4", "-", "0", "1", "-", "0", "1", "T", "0", "0", ":", "3", "0", ":", "0", "0", "+", "0", "1", ":", "0", "0">>

\* not ISO-8601, holds a single quote
TimeQuoted ==
    <<"i", "t", "'", "s">>

AltUnit ==
    <<"7", " ", "m">>

AltWords ==
    <<"a", "b", "c">>

AltBlank ==
    <<" ", " ">>

Position(latlng, timestamp) == [LatLng |-> latlng, timestamp |-> timestamp]

Signal(latlng, timestamp, altitude) ==
    [position |-> Position(latlng, timestamp), altitude |-> altitude]

\* The raw signals a document may hold.  A signal without 'position' reads as
\* one whose position has no keys (signal.get('position', {})).
RawSignalInputs ==
    { Signal(PyStr(LatLngSpec), PyStr(TimeLocal), Absent),
      Signal(PyStr(LatLngSpaced), PyStr(TimeZulu), PyInt(FALSE, 0)),
      Signal(PyStr(LatLngNaN), PyStr(TimeZulu), PyStr(AltUnit)),
      Signal(PyStr(LatLngZero), PyStr(TimeQuoted), PyStr(AltWords)),
      Signal(PyStr(LatLngNegZero), PyStr(TimeQuoted), PyStr(AltBlank)),
      Signal(PyStr(LatLngNoComma), PyStr(TimeZulu), PyInt(FALSE, 3)),
      Signal(PyStr(LatLngSpec), PyStr(<<>>), PyFloat(FALSE, 125, 1)),
      Signal(Absent, Absent, PyFloat(FALSE, 125, 1)) }

PathPoint(point, time) == [point |-> point, time |-> time]

Segment(present, items) == [present |-> present, timelinePath |-> items]

\* The segments a document may hold: without timelinePath, or with a path.
SegmentInputs ==
    { Segment(FALSE, <<>>),
      Segment(TRUE, <<PathPoint(PyStr(LatLngSpec), PyStr(TimeEast))>>),
      Segment(TRUE, <<PathPoint(PyStr(LatLngZero), PyStr(TimeNewYear)),
                      PathPoint(PyStr(LatLngSpec), PyStr(TimeEast))>>),
      Segment(TRUE, <<PathPoint(PyStr(LatLngWords), PyStr(TimeZulu)),
                      PathPoint(PyStr(LatLngZero), Absent)>>) }

SeqUpTo(S, n) == UNION {[1..k -> S] : k \in 0..n}

\* the reorderings of a list
Reorderings(s) ==
    {[i \in 1..Len(s) |-> s[p[i]]] : p \in Permutations(1..Len(s))}

(* ------------------------------------------------------------------ *)
(* generate_inserts.py                                                  *)
(* ------------------------------------------------------------------ *)
NULL ==
    <<"N", "U", "L", "L">>

UtcOffsetText ==
    <<"+", "0", "0", ":", "0", "0">>

\* Faulty variant of AltitudeClause: the text "0" is taken for a missing altitude.
AltitudeClause_zeroIsNull(altitude) ==
    IF altitude # <<>> /\ altitude # <<"0">> THEN altitude ELSE NULL

\* row['altitude'] if row['altitude'] else 'NULL'
AltitudeClause(altitude) == IF altitude # <<>> THEN altitude ELSE NULL

SqlValues(dt, lat, lng, alt) ==
    [datetime |-> dt, latitude |-> lat, longitude |-> lng, altitude |-> alt]

\* generate_inserts: the VALUES of the INSERT statement of one CSV row
InsertStatement(row) ==
    LET datetime_utc == Replace(row.datetime, "'", <<"'", "'">>)
        altitude == AltitudeClause(row.altitude)
        altitude_clause == IF altitude = NULL THEN NULL ELSE altitude
        datetime_utc_converted == Replace(datetime_utc, "Z", UtcOffsetText)
    IN  SqlValues(<<"'">> \o datetime_utc_converted \o <<"'">>,
                  row.latitude, row.longitude, altitude_clause)

\* repr() of a str, the '!r' conversion of an f-string
Repr(s) ==
    LET has(c) == \E i \in 1..Len(s) : s[i] = c
        quote == IF has("'") /\ ~has("\"") THEN "\"" ELSE "'"
        esc(c) == CASE c = "\\" -> <<"\\", "\\">>
                    [] c = quote -> <<"\\", quote>>
                    [] c = "\n" -> <<"\\", "n">>
                    [] c = "\t" -> <<"\\", "t">>
                    [] OTHER -> <<c>>
        RECURSIVE body(_)
        body(t) == IF t = <<>> THEN <<>> ELSE esc(Head(t)) \o body(Tail(t))
    IN  <<quote>> \o body(s) \o <<quote>>

\* generate_batch_inserts: the value tuple of one CSV row
BatchTuple(row) ==
    LET datetime_utc == Replace(row.datetime, "'", <<"'", "'">>)
        altitude == AltitudeClause(row.altitude)
    IN  IF altitude # NULL
        THEN SqlValues(Repr(datetime_utc), row.latitude, row.longitude, altitude)
        ELSE SqlValues(Repr(datetime_utc), row.latitude, row.longitude, NULL)

\* Faulty variant of BatchFull: a batch is closed one tuple too late.
BatchFull_late(batch, batch_size) == Len(batch) > batch_size

\* 'if len(batch) >= batch_size:'
BatchFull(batch, batch_size) == Len(batch) >= batch_size

(* ------------------------------------------------------------------ *)
(* State                                                                *)
(* ------------------------------------------------------------------ *)
VARIABLES
    fileExists,          \* json_path.exists()
    jsonValid,           \* json.load(f) does not raise JSONDecodeError
    rawSignals,          \* data.get('rawSignals', [])
    semanticSegments,    \* data.get('semanticSegments', [])
    pc,                  \* position of extract_gps.py
    idx,                 \* index of the loop in progress (1-based)
    coordinates,         \* the list 'coordinates'
    unique_coordinates,  \* the list 'unique_coordinates'
    csvFile,             \* coordinates.csv: [exists, rows]
    returned,            \* value returned by extract_gps_coordinates (-1: none yet)
    exitStatus,          \* exit status of extract_gps.py (-1: still running)
    run,                 \* 1: first document, 2: the reordered document
    prevCsv,             \* rows written for the first document
    gpc,                 \* position of generate_inserts.py
    gidx,                \* index of the CSV row being read (1-based)
    inserts,             \* generate_inserts: the list 'inserts'
    batch_size,          \* generate_batch_inserts: parameter batch_size
    batches,             \* generate_batch_inserts: the list 'inserts'
    batch,               \* generate_batch_inserts: the list 'batch'
    row_count,           \* row_count of the function in progress
    sqlFile,             \* insert_coordinates.sql: [exists, statements]
    batchSqlFile,        \* insert_coordinates_batch.sql: [exists, batches, total]
    genReturned,         \* <<generate_inserts, generate_batch_inserts>> results
    genExit              \* exit status of generate_inserts.py (-1: none yet)

docVars == <<fileExists, jsonValid, rawSignals, semanticSegments>>
extVars == <<pc, idx, coordinates, unique_coordinates, csvFile, returned, exitStatus>>
runVars == <<run, prevCsv>>
genVars == <<gpc, gidx, inserts, batch_size, batches, batch, row_count,
             sqlFile, batchSqlFile, genReturned, genExit>>
vars == <<docVars, extVars, runVars, genVars>>

NoFile == [exists |-> FALSE, rows |-> <<>>]

Init ==
    /\ \/ /\ fileExists = FALSE /\ jsonValid = FALSE
          /\ rawSignals = <<>> /\ semanticSegments = <<>>
       \/ /\ fileExists = TRUE /\ jsonValid = FALSE
          /\ rawSignals = <<>> /\ semanticSegments = <<>>
       \/ /\ fileExists = TRUE /\ jsonValid = TRUE
          /\ rawSignals \in SeqUpTo(RawSignalInputs, MaxRaw)
          /\ semanticSegments \in SeqUpTo(SegmentInputs, MaxSeg)
    /\ pc = "main" /\ idx = 1
    /\ coordinates = <<>> /\ unique_coordinates = <<>>
    /\ csvFile = NoFile
    /\ returned = -1 /\ exitStatus = -1
    /\ run = 1 /\ prevCsv = <<>>
    /\ gpc = "idle" /\ gidx = 1
    /\ inserts = <<>> /\ batch_size = 1 /\ batches = <<>> /\ batch = <<>>
    /\ row_count = 0
    /\ sqlFile = [exists |-> FALSE, statements |-> <<>>]
    /\ batchSqlFile = [exists |-> FALSE, batches |-> <<>>, total |-> 0]
    /\ genReturned = <<-1, -1>> /\ genExit = -1

(* ------------------------------------------------------------------ *)
(* extract_gps.py                                                       *)
(* ------------------------------------------------------------------ *)
\* __main__: a missing input file ends the run with status 1
Main ==
    /\ pc = "main"
    /\ IF fileExists
       THEN pc' = "load" /\ exitStatus' = exitStatus
       ELSE pc' = "exited" /\ exitStatus' = 1
    /\ UNCHANGED <<idx, coordinates, unique_coordinates, csvFile, returned>>
    /\ UNCHANGED <<docVars, runVars, genVars>>

\* json.load: on JSONDecodeError the function returns 0 and __main__ ends normally
LoadJson ==
    /\ pc = "load"
    /\ IF jsonValid
       THEN /\ pc' = "raw" /\ idx' = 1 /\ coordinates' = <<>>
            /\ UNCHANGED <<returned, exitStatus>>
       ELSE /\ pc' = "done" /\ returned' = 0 /\ exitStatus' = 0
            /\ UNCHANGED <<idx, coordinates>>
    /\ UNCHANGED <<unique_coordinates, csvFile>>
    /\ UNCHANGED <<docVars, runVars, genVars>>

\* one iteration of 'for idx, signal in enumerate(raw_signals)'
ProcessSignal ==
    /\ pc = "raw" /\ idx <= Len(rawSignals)
    /\ coordinates' = coordinates \o SignalCoordinates(rawSignals[idx])
    /\ idx' = idx + 1
    /\ UNCHANGED <<pc, unique_coordinates, csvFile, returned, exitStatus>>
    /\ UNCHANGED <<docVars, runVars, genVars>>

\* the rawSignals loop is over: semantic_segments = data.get('semanticSegments', [])
StartSegments ==
    /\ pc = "raw" /\ idx > Len(rawSignals)
    /\ pc' = "segments" /\ idx' = 1
    /\ UNCHANGED <<coordinates, unique_coordinates, csvFile, returned, exitStatus>>
    /\ UNCHANGED <<docVars, runVars, genVars>>

\* one iteration of 'for idx, segment in enumerate(semantic_segments)'
ProcessSegment ==
    /\ pc = "segments" /\ idx <= Len(semanticSegments)
    /\ LET segment == semanticSegments[idx]
           timeline_path == IF segment.present THEN segment.timelinePath ELSE <<>>
       IN  coordinates' = coordinates \o PathCoordinates(timeline_path)
    /\ idx' = idx + 1
    /\ UNCHANGED <<pc, unique_coordinates, csvFile, returned, exitStatus>>
    /\ UNCHANGED <<docVars, runVars, genVars>>

\* '# Remove duplicates while preserving order'
Deduplicate ==
    /\ pc = "segments" /\ idx > Len(semanticSegments)
    /\ unique_coordinates' = RemoveDuplicates(coordinates)
    /\ pc' = "sort"
    /\ UNCHANGED <<idx, coordinates, csvFile, returned, exitStatus>>
    /\ UNCHANGED <<docVars, runVars, genVars>>

\* '# Sort by datetime'
Sort ==
    /\ pc = "sort"
    /\ unique_coordinates' = SortByDatetime(unique_coordinates)
    /\ pc' = "write"
    /\ UNCHANGED <<idx, coordinates, csvFile, returned, exitStatus>>
    /\ UNCHANGED <<docVars, runVars, genVars>>

\* csv.DictWriter ... return len(unique_coordinates); __main__ then ends
WriteCsv ==
    /\ pc = "write"
    /\ csvFile' = [exists |-> TRUE, rows |-> CsvRows(unique_coordinates)]
    /\ returned' = Len(unique_coordinates)
    /\ exitStatus' = 0
    /\ pc' = "done"
    /\ UNCHANGED <<idx, coordinates, unique_coordinates>>
    /\ UNCHANGED <<docVars, runVars, genVars>>

\* The extractor is run again on a document holding the same records in
\* another order; the first run's rows are kept for comparison.
Rerun ==
    /\ pc = "done" /\ jsonValid /\ run = 1 /\ gpc = "idle"
    /\ rawSignals' \in Reorderings(rawSignals)
    /\ semanticSegments' \in Reorderings(semanticSegments)
    /\ <<rawSignals', semanticSegments'>> # <<rawSignals, semanticSegments>>
    /\ prevCsv' = csvFile.rows /\ run' = 2
    /\ pc' = "main" /\ idx' = 1 /\ coordinates' = <<>> /\ unique_coordinates' = <<>>
    /\ returned' = -1 /\ exitStatus' = -1
    /\ UNCHANGED <<fileExists, jsonValid, csvFile, genVars>>

(* ------------------------------------------------------------------ *)
(* generate_inserts.py                                                  *)
(* ------------------------------------------------------------------ *)
\* __main__: a missing CSV ends the run with status 1; else generate_inserts starts
GenMain ==
    /\ gpc = "idle" /\ pc \in {"done", "exited"}
    /\ IF csvFile.exists
       THEN /\ gpc' = "inserts" /\ gidx' = 1 /\ inserts' = <<>> /\ row_count' = 0
            /\ genExit' = genExit
       ELSE /\ gpc' = "exited" /\ genExit' = 1
            /\ UNCHANGED <<gidx, inserts, row_count>>
    /\ UNCHANGED <<batch_size, batches, batch, sqlFile, batchSqlFile, genReturned>>
    /\ UNCHANGED <<docVars, extVars, runVars>>

\* generate_inserts: one iteration of 'for row in reader'
InsertRow ==
    /\ gpc = "inserts" /\ gidx <= Len(csvFile.rows)
    /\ row_count' = row_count + 1
    /\ inserts' = Append(inserts, InsertStatement(csvFile.rows[gidx]))
    /\ gidx' = gidx + 1
    /\ UNCHANGED <<gpc, batch_size, batches, batch, sqlFile, batchSqlFile,
                   genReturned, genExit>>
    /\ UNCHANGED <<docVars, extVars, runVars>>

\* generate_inserts writes its file and returns; __main__ calls
\* generate_batch_inserts (any batch size >= 1 is drawn here)
WriteInserts ==
    /\ gpc = "inserts" /\ gidx > Len(csvFile.rows)
    /\ sqlFile' = [exists |-> TRUE, statements |-> inserts]
    /\ genReturned' = <<Len(inserts), genReturned[2]>>
    /\ batch_size' \in 1..MaxBatch
    /\ gpc' = "batch" /\ gidx' = 1 /\ batches' = <<>> /\ batch' = <<>> /\ row_count' = 0
    /\ UNCHANGED <<inserts, batchSqlFile, genExit>>
    /\ UNCHANGED <<docVars, extVars, runVars>>

\* generate_batch_inserts: one iteration of 'for row in reader'
BatchRow ==
    /\ gpc = "batch" /\ gidx <= Len(csvFile.rows)
    /\ row_count' = row_count + 1
    /\ LET grown == Append(batch, BatchTuple(csvFile.rows[gidx]))
       IN  IF BatchFull(grown, batch_size)
           THEN batches' = Append(batches, grown) /\ batch' = <<>>
           ELSE batches' = batches /\ batch' = grown
    /\ gidx' = gidx + 1
    /\ UNCHANGED <<gpc, inserts, batch_size, sqlFile, batchSqlFile, genReturned, genExit>>
    /\ UNCHANGED <<docVars, extVars, runVars>>

\* '# Add remaining records', then the file is written and row_count returned
WriteBatches ==
    /\ gpc = "batch" /\ gidx > Len(csvFile.rows)
    /\ LET all == IF batch # <<>> THEN Append(batches, batch) ELSE batches
       IN  /\ batches' = all
           /\ batchSqlFile' = [exists |-> TRUE, batches |-> all, total |-> row_count]
    /\ genReturned' = <<genReturned[1], row_count>>
    /\ genExit' = 0
    /\ gpc' = "done"
    /\ UNCHANGED <<gidx, inserts, batch_size, batch, row_count, sqlFile>>
    /\ UNCHANGED <<docVars, extVars, runVars>>

Next ==
    \/ Main
    \/ LoadJson
    \/ ProcessSignal
    \/ StartSegments
    \/ ProcessSegment
    \/ Deduplicate
    \/ Sort
    \/ WriteCsv
    \/ Rerun
    \/ GenMain
    \/ InsertRow
    \/ WriteInserts
    \/ BatchRow
    \/ WriteBatches

Spec == Init /\ [][Next]_vars

(* ------------------------------------------------------------------ *)
(* Properties                                                           *)
(* ------------------------------------------------------------------ *)
\* both loops have ended: 'coordinates' holds every entry of the document and
\* is not changed any more
Collected == jsonValid /\ pc = "sort"

\* extract_gps_coordinates has returned after writing coordinates.csv
Written == jsonValid /\ pc = "done" /\ gpc = "idle"

\* both SQL scripts were generated from the CSV just written
Generated == jsonValid /\ pc = "done" /\ gpc = "done"

Rows == csvFile.rows

\* a number text up to numeric equality: "-0.0" and "0.0" are the same number
NumberOf(text) ==
    IF NumEq(ParseFloat(text), PyFloat(FALSE, 0, 0)) THEN <<"0", ".", "0">> ELSE text

\* the (datetime, latitude, longitude) triple of a CSV row
RowKey(row) == <<row.datetime, NumberOf(row.latitude), NumberOf(row.longitude)>>

KeySet(rows) == {RowKey(rows[i]) : i \in 1..Len(rows)}

RowSet(rows) == {rows[i] : i \in 1..Len(rows)}

PathOf(segment) == IF segment.present THEN segment.timelinePath ELSE <<>>

PointIndexes ==
    UNION {{<<i, j>> : j \in 1..Len(PathOf(semanticSegments[i]))} :
               i \in 1..Len(semanticSegments)}

PointAt(ij) == PathOf(semanticSegments[ij[1]])[ij[2]]

HasText(v) == v.t = "str" /\ v.s # <<>>

CoordinateParses(v) == HasText(v) /\ parse_latlng(v.s)[1].t # "none"

TimestampParses(v) == HasText(v) /\ fromisoformat(Replace(v.s, "Z", UtcOffsetText)).ok

\* raw signals with a parsed coordinate string and a non-empty timestamp
AcceptedRaw ==
    {i \in 1..Len(rawSignals) :
        /\ CoordinateParses(rawSignals[i].position.LatLng)
        /\ HasText(rawSignals[i].position.timestamp)}

AcceptedPoints ==
    {ij \in PointIndexes :
        CoordinateParses(PointAt(ij).point) /\ HasText(PointAt(ij).time)}

\* position in 'coordinates' of the entry of accepted raw signal i
Rank(i) == Cardinality({j \in AcceptedRaw : j <= i})

RECURSIVE Flatten(_)
Flatten(lists) == IF lists = <<>> THEN <<>> ELSE Head(lists) \o Flatten(Tail(lists))

\* C1: after extract_gps_coordinates finishes, no two data rows of the CSV have
\* the same (datetime, latitude, longitude) triple.
C1_NoDuplicateKeys ==
    Written =>
        \A i, j \in 1..Len(Rows) : i # j => RowKey(Rows[i]) # RowKey(Rows[j])

\* C2: the data rows of the CSV are in non-decreasing order of their datetime
\* field under string comparison: no row's datetime is greater than its successor's.
C2_SortedByDatetime ==
    Written =>
        \A i \in 1..(Len(Rows) - 1) : ~StrLt(Rows[i + 1].datetime, Rows[i].datetime)

\* C2 witness: a written CSV of several rows whose entries were met in
\* decreasing datetime order during traversal.
C2_Witness ==
    /\ Written /\ Len(Rows) >= 2
    /\ \E i, j \in 1..Len(coordinates) :
           i < j /\ StrLt(coordinates[j].datetime, coordinates[i].datetime)

\* C3 (as claimed): an entry is emitted only for a record whose coordinate string
\* and timestamp were both present and successfully parsed; every other record
\* contributes no row.
C3_OnlyFullyParsed ==
    Collected =>
        Len(coordinates) =
            Cardinality({i \in AcceptedRaw : TimestampParses(rawSignals[i].position.timestamp)})
            + Cardinality({ij \in AcceptedPoints : TimestampParses(PointAt(ij).time)})

\* C3 (amended): an entry is emitted exactly for the records whose coordinate
\* string is present and parses and whose timestamp is present and non-empty;
\* a record whose timestamp does not parse keeps its original timestamp text.
C3_OnlyPresentAndCoordinateParsed ==
    Collected =>
        /\ Len(coordinates) = Cardinality(AcceptedRaw) + Cardinality(AcceptedPoints)
        /\ \A i \in AcceptedRaw :
               LET timestamp == rawSignals[i].position.timestamp
                   entry == coordinates[Rank(i)]
               IN  /\ <<entry.latitude, entry.longitude>>
                          = parse_latlng(rawSignals[i].position.LatLng.s)
                   /\ ~TimestampParses(timestamp) => entry.datetime = timestamp.s
                   /\ TimestampParses(timestamp) =>
                          Len(entry.datetime) = 20 /\ entry.datetime[20] = "Z"

\* C3 witness: a document with a dropped record (no coordinate or no timestamp)
\* and an emitted record whose timestamp did not parse.
C3_Witness ==
    /\ Collected
    /\ \E i \in 1..Len(rawSignals) : i \notin AcceptedRaw
    /\ \E i \in AcceptedRaw : ~TimestampParses(rawSignals[i].position.timestamp)

\* C4: when the input file is missing or is not valid JSON, the run ends with a
\* non-zero exit status and no output CSV is produced.
C4_FatalErrors ==
    (pc \in {"done", "exited"} /\ (~fileExists \/ ~jsonValid)) =>
        exitStatus > 0 /\ csvFile = NoFile

\* C5 (as claimed): two documents holding the same records in a different order
\* give the same set of CSV rows, altitude included.
C5_OrderIrrelevant ==
    (run = 2 /\ Written) => RowSet(Rows) = RowSet(prevCsv)

\* C5 (amended): two documents holding the same records in a different order
\* give the same number of rows and the same keys (same datetime, numerically
\* equal latitude and longitude); the altitude of a row may differ.
C5_SameKeysAnyOrder ==
    (run = 2 /\ Written) =>
        /\ Len(Rows) = Len(prevCsv)
        /\ KeySet(Rows) = KeySet(prevCsv)

\* C5 witness: the reordered document gave a row whose altitude differs from the
\* first run's row of the same key.
C5_Witness ==
    /\ run = 2 /\ Written
    /\ \E i \in 1..Len(Rows) : \E j \in 1..Len(prevCsv) :
           RowKey(Rows[i]) = RowKey(prevCsv[j]) /\ Rows[i].altitude # prevCsv[j].altitude

\* C6: generate_batch_inserts splits the n rows, in CSV order, into ceil(n/b)
\* batches: all but the last hold b tuples, the last holds 1..b, none is empty,
\* their concatenation is the row sequence and the returned count is n.
C6_BatchSplit ==
    gpc = "done" =>
        LET n == Len(Rows)
            b == batch_size
            out == batchSqlFile.batches
        IN  /\ Len(out) = (n + b - 1) \div b
            /\ \A k \in 1..(Len(out) - 1) : Len(out[k]) = b
            /\ \A k \in 1..Len(out) : Len(out[k]) \in 1..b
            /\ Flatten(out) = [i \in 1..n |-> BatchTuple(Rows[i])]
            /\ genReturned[2] = n
            /\ batchSqlFile.total = n

\* C6 witness: several batches were written and the last one is not full.
C6_Witness ==
    /\ gpc = "done" /\ Len(batchSqlFile.batches) >= 2
    /\ Len(batchSqlFile.batches[Len(batchSqlFile.batches)]) < batch_size
    /\ batch_size >= 2

\* C7: for every CSV row the value tuple of Mode B equals the values of Mode A:
\* same datetime literal, latitude, longitude and altitude texts.
C7_SameRendering ==
    gpc = "done" =>
        \A i \in 1..Len(Rows) :
            sqlFile.statements[i] = Flatten(batchSqlFile.batches)[i]

\* C8: for every entry written by the Extractor, the SQL values of its CSV row
\* hold NULL as altitude exactly when the entry has no altitude, and otherwise
\* the CSV altitude text unchanged; latitude and longitude are inlined unchanged.
C8_AltitudeRoundTrip ==
    (Generated /\ sqlFile.exists) =>
        \A i \in 1..Len(Rows) :
            LET entry == unique_coordinates[i]
                values == sqlFile.statements[i]
            IN  /\ (values.altitude = NULL) <=> (entry.altitude = EmptyStr)
                /\ (entry.altitude = EmptyStr) <=> (Rows[i].altitude = <<>>)
                /\ entry.altitude # EmptyStr =>
                       /\ values.altitude = Rows[i].altitude
                       /\ values.altitude = NumText(entry.altitude)
                /\ values.latitude = Rows[i].latitude
                /\ values.latitude = NumText(entry.latitude)
                /\ values.longitude = Rows[i].longitude
                /\ values.longitude = NumText(entry.longitude)

\* C8 witness: the generated SQL holds an entry of altitude 0 rendered as 0 and
\* an entry without altitude rendered as NULL.
C8_Witness ==
    /\ Generated /\ sqlFile.exists
    /\ \E i \in 1..Len(Rows) :
           unique_coordinates[i].altitude = PyInt(FALSE, 0)
           /\ sqlFile.statements[i].altitude = <<"0">>
    /\ \E i \in 1..Len(Rows) :
           unique_coordinates[i].altitude = EmptyStr
           /\ sqlFile.statements[i].altitude = NULL

\* C9: a raw signal with a valid coordinate and timestamp is always emitted; a
\* numeric altitude is kept, a text altitude is parsed from its first token, and
\* a text with no parseable first token gives an empty altitude.  Entries from
\* semanticSegments have an empty altitude.
C9_AltitudeParsing ==
    Collected =>
        /\ Len(coordinates) >= Cardinality(AcceptedRaw)
        /\ \A i \in AcceptedRaw :
               LET altitude == rawSignals[i].altitude
                   tokens == SplitWs(altitude.s)
                   got == coordinates[Rank(i)].altitude
               IN  /\ altitude.t \in {"int", "float"} => got = altitude
                   /\ (HasText(altitude) /\ tokens # <<>>
                           /\ ParseFloat(tokens[1]).t # "none")
                          => got = ParseFloat(tokens[1])
                   /\ (HasText(altitude)
                           /\ (tokens = <<>> \/ ParseFloat(tokens[1]).t = "none"))
                          => got = EmptyStr
                   /\ altitude.t = "absent" => got = EmptyStr
        /\ \A k \in (Cardinality(AcceptedRaw) + 1)..Len(coordinates) :
               coordinates[k].altitude = EmptyStr

\* C9 witness: an emitted raw signal whose altitude text has no parseable token,
\* one whose altitude text parses, and an entry from a semantic segment.
C9_Witness ==
    /\ Collected
    /\ \E i \in AcceptedRaw :
           /\ HasText(rawSignals[i].altitude)
           /\ AltitudeValue(rawSignals[i].altitude) = PyNone
           /\ coordinates[Rank(i)].altitude = EmptyStr
    /\ \E i \in AcceptedRaw :
           /\ HasText(rawSignals[i].altitude)
           /\ coordinates[Rank(i)].altitude = PyFloat(FALSE, 7, 0)
    /\ Len(coordinates) > Cardinality(AcceptedRaw)

\* C10: the keys of the CSV rows are exactly the keys of the accepted records,
\* and the returned value equals the number of rows written, which equals the
\* number of distinct accepted keys.
C10_NothingLostExactCount ==
    Written =>
        /\ KeySet(Rows) = KeySet(CsvRows(coordinates))
        /\ returned = Len(Rows)
        /\ Len(Rows) = Cardinality(KeySet(CsvRows(coordinates)))

====
